---- MODULE Spec2Model ----
(***************************************************************************)
(* The lexical analyser of the repository, in its two variants:            *)
(*   "lexer"      src/lexer.py              (GUI variant, has a bare '=')  *)
(*   "analizador" src/Analizador_Léxico.py  (CLI variant)                  *)
(* A source text is a sequence of one-character strings.  pos is the       *)
(* 0-based offset of the code; line and col are the 1-based cursor.        *)
(***************************************************************************)
EXTENDS Integers, Sequences, FiniteSets, TLC

VARIABLES
    variant,      \* which of the two source files runs
    source_text,  \* the argument of lex
    pos,          \* 0-based offset into source_text
    line, col,    \* the 1-based cursor
    tokens,       \* the list being built
    match,        \* (tok_name, lexeme) found by the for loop, NoMatch for None
    pc,           \* "scan", "matched", "done" (returned), "error" (raised)
    error,        \* the LexerError raised
    consumed,     \* history: every lexeme consumed so far, in order
    starts        \* history: the offset each token of tokens was matched at

vars == <<variant, source_text, pos, line, col, tokens, match, pc, error,
          consumed, starts>>

\* ------------------------------------------------------------------------
\* Bounds and inputs
\* ------------------------------------------------------------------------
MaxFrags == 3

\* the number of pieces of a text under the fair specification
MaxFairFrags == 2

Pieces ==
    { <<"\"">>, <<"\r">>, <<"\n">>, <<" ">>, <<"@">>, <<"/">>, <<".">>,
      <<":">>, <<"=">>, <<"1">>, <<"e">>, <<"E">>,
      <<"/", "/", "a", "1", "/", "/">>, <<"I", "f">> }

SampleSci ==
    <<"1", "2", ".", "3", "e", "-", "2">>
SampleInt ==
    <<"1", "2", "3">>
SampleExp ==
    <<"1", "2", "e", "2", "1">>
SampleUpperExp ==
    <<"1", "2", "E", "2", "1">>
SampleString ==
    <<"\"", "T", "e", "x", "t", "o", " ", "e", "n", " ", "s", "t", "r", "i", "n", "g", " ", "l", "i", "t", "\"">>
SampleLines ==
    <<"x", " ", ":", "=", " ", "1", ";", "\n", "y", " ", ":", "=", " ", "2", ";", "\n">>
SampleKeyword ==
    <<"P", "R", "O", "G", "R", "A", "M">>
SampleIffy ==
    <<"i", "f", "f", "y">>
SampleDo ==
    <<"d", "o", "_">>
SampleComment ==
    <<"x", ";", "/", "/", "a", "b", "c", "1", "2", "3", "/", "/", "y", ";">>
SampleCrString ==
    <<"\"", "a", "\r", "b", "\"", "@">>
SampleOps ==
    <<":", "=", " ", "=", "=", " ", "!", "=", " ", "<", "=", " ", ">", "=", " ", "&", "&", " ", "|", "|", " ", ".", ".">>
SampleArith ==
    <<"(", "a", "+", "b", ")", "*", "c", "[", "1", "]", "%", "2", ",", "!", "d", ">", "e">>
SampleDemo ==
    <<"p", "r", "o", "g", "r", "a", "m", " ", "D", "e", "m", "o", ";", "\n", "v", "a", "r", " ", "x", ":", " ", "i", "n", "t", "e", "g", "e", "r", ";", "\n", "b", "e", "g", "i", "n", "\n", " ", " ", "/", "/", "e", "s", "t", "e", "e", "s", "u", "n", "c", "o", "m", "e", "n", "t", "a", "r", "i", "o", "/", "/", "\n", " ", " ", "x", " ", ":", "=", " ", "1", "2", ".", "3", "e", "-", "2", ";", "\n", " ", " ", "y", " ", ":", "=", " ", "\"", "T", "e", "x", "t", "o", " ", "e", "n", " ", "s", "t", "r", "i", "n", "g", " ", "l", "i", "t", "\"", ";", "\n", "e", "n", "d", ".", "\n">>

Samples ==
    { SampleSci, SampleInt, SampleExp, SampleUpperExp, SampleString,
      SampleLines, SampleKeyword, SampleIffy, SampleDo, SampleComment,
      SampleCrString, SampleOps, SampleArith, SampleDemo }

RECURSIVE Texts(_)
Texts(n) ==
    IF n = 0 THEN { <<>> }
    ELSE LET shorter == Texts(n - 1)
         IN  shorter \cup { s \o p : s \in shorter, p \in Pieces }

Sources == Texts(MaxFrags) \cup Samples

FairSources == Texts(MaxFairFrags) \cup Samples

Variants == { "lexer", "analizador" }

\* ------------------------------------------------------------------------
\* Character classes of the regular expressions
\* ------------------------------------------------------------------------
Digit == { "0", "1", "2", "3", "4", "5", "6", "7", "8", "9" }

UpperSeq ==
    <<"A", "B", "C", "D", "E", "F", "G", "H", "I", "J", "K", "L", "M",
      "N", "O", "P", "Q", "R", "S", "T", "U", "V", "W", "X", "Y", "Z">>

LowerSeq ==
    <<"a", "b", "c", "d", "e", "f", "g", "h", "i", "j", "k", "l", "m",
      "n", "o", "p", "q", "r", "s", "t", "u", "v", "w", "x", "y", "z">>

Upper == { UpperSeq[i] : i \in 1..26 }
Lower == { LowerSeq[i] : i \in 1..26 }
Letter == Upper \cup Lower
AlNum == Letter \cup Digit
IdTail == AlNum \cup { "_" }
Blank == { " ", "\t" }
Quote == "\""

\* str.lower() on one character and on a lexeme
LowerCharCaseSensitive(c) == c

LowerChar(c) ==
    IF c \in Upper THEN LowerSeq[CHOOSE i \in 1..26 : UpperSeq[i] = c] ELSE c

lower(lexeme) == [i \in 1..Len(lexeme) |-> LowerChar(lexeme[i])]

\* ------------------------------------------------------------------------
\* KEYWORDS
\* ------------------------------------------------------------------------
KEYWORDS ==
    { [word |-> <<"p", "r", "o", "g", "r", "a", "m">>, type |-> "PROGRAM"],
      [word |-> <<"t", "y", "p", "e">>, type |-> "TYPE"],
      [word |-> <<"v", "a", "r">>, type |-> "VAR"],
      [word |-> <<"p", "r", "o", "c", "e", "d", "u", "r", "e">>, type |-> "PROCEDURE"],
      [word |-> <<"f", "u", "n", "c", "t", "i", "o", "n">>, type |-> "FUNCTION"],
      [word |-> <<"b", "e", "g", "i", "n">>, type |-> "BEGIN"],
      [word |-> <<"e", "n", "d">>, type |-> "END"],
      [word |-> <<"i", "n", "t", "e", "g", "e", "r">>, type |-> "INTEGER"],
      [word |-> <<"b", "o", "o", "l", "e", "a", "n">>, type |-> "BOOLEAN"],
      [word |-> <<"s", "t", "r", "i", "n", "g">>, type |-> "STRING_T"],
      [word |-> <<"a", "r", "r", "a", "y">>, type |-> "ARRAY"],
      [word |-> <<"o", "f">>, type |-> "OF"],
      [word |-> <<"i", "f">>, type |-> "IF"],
      [word |-> <<"t", "h", "e", "n">>, type |-> "THEN"],
      [word |-> <<"e", "l", "s", "e">>, type |-> "ELSE"],
      [word |-> <<"w", "h", "i", "l", "e">>, type |-> "WHILE"],
      [word |-> <<"d", "o">>, type |-> "DO"],
      [word |-> <<"t", "r", "u", "e">>, type |-> "TRUE"],
      [word |-> <<"f", "a", "l", "s", "e">>, type |-> "FALSE"] }

KeywordWords == { k.word : k \in KEYWORDS }

KeywordType(word) == (CHOOSE k \in KEYWORDS : k.word = word).type

\* ------------------------------------------------------------------------
\* Regular-expression matching: re.match(text, pos) of each pattern.
\* Every matcher returns the length of the match, 0 when there is none
\* (no pattern of the tables can match the empty string).
\* ------------------------------------------------------------------------
\* the character at 0-based offset p, "" past the end of the text
At(s, p) == IF p >= 0 /\ p < Len(s) THEN s[p + 1] ELSE ""

\* end offset of the longest run of characters of class S starting at p
RunEnd(s, p, S) ==
    CHOOSE j \in p..Len(s) :
        /\ \A k \in p..(j - 1) : At(s, k) \in S
        /\ (j = Len(s) \/ At(s, j) \notin S)

\* end offset of the longest run of characters outside S starting at p
RunEndNot(s, p, S) ==
    CHOOSE j \in p..Len(s) :
        /\ \A k \in p..(j - 1) : At(s, k) \notin S
        /\ (j = Len(s) \/ At(s, j) \in S)

\* [ \t]+
MatchWhitespace(s, p) == RunEnd(s, p, Blank) - p

\* \r\n|\r|\n
MatchNewline(s, p) ==
    IF At(s, p) = "\r" /\ At(s, p + 1) = "\n" THEN 2
    ELSE IF At(s, p) = "\r" THEN 1
    ELSE IF At(s, p) = "\n" THEN 1
    ELSE 0

\* //[A-Za-z]+// : a comment body without digits
MatchCommentLettersOnly(s, p) ==
    IF At(s, p) = "/" /\ At(s, p + 1) = "/"
    THEN LET j == RunEnd(s, p + 2, Letter)
         IN  IF j > p + 2 /\ At(s, j) = "/" /\ At(s, j + 1) = "/"
             THEN j + 2 - p ELSE 0
    ELSE 0

\* //[A-Za-z0-9]+//
MatchComment(s, p) ==
    IF At(s, p) = "/" /\ At(s, p + 1) = "/"
    THEN LET j == RunEnd(s, p + 2, AlNum)
         IN  IF j > p + 2 /\ At(s, j) = "/" /\ At(s, j + 1) = "/"
             THEN j + 2 - p ELSE 0
    ELSE 0

\* \"[^\"\n]*\"  (the class excludes the quote and \n only, so it admits \r)
MatchString(s, p) ==
    IF At(s, p) = Quote
    THEN LET j == RunEndNot(s, p + 1, { Quote, "\n" })
         IN  IF At(s, j) = Quote THEN j + 1 - p ELSE 0
    ELSE 0

\* \d+(\.\d+)?([eE][+-]?\d+)?  with exp the set of exponent markers
MatchNum(s, p, exp) ==
    LET d == RunEnd(s, p, Digit)
        f == IF At(s, d) = "." /\ RunEnd(s, d + 1, Digit) > d + 1
             THEN RunEnd(s, d + 1, Digit) ELSE d
        k == IF At(s, f + 1) \in { "+", "-" } THEN f + 2 ELSE f + 1
        e == IF At(s, f) \in exp /\ RunEnd(s, k, Digit) > k
             THEN RunEnd(s, k, Digit) ELSE f
    IN  IF d > p THEN e - p ELSE 0

\* a literal pattern such as := or \.\.
MatchLiteral(s, p, lit) ==
    IF \A i \in 1..Len(lit) : At(s, p + i - 1) = lit[i] THEN Len(lit) ELSE 0

\* [A-Za-z][A-Za-z0-9_]*
MatchId(s, p) ==
    IF At(s, p) \in Letter THEN RunEnd(s, p + 1, IdTail) - p ELSE 0

\* ------------------------------------------------------------------------
\* token_specification: the ordered rule tables
\* ------------------------------------------------------------------------
Lit(name, lit) == [name |-> name, kind |-> "LIT", lit |-> lit]

SkipRules ==
    << [name |-> "WHITESPACE", kind |-> "WHITESPACE"],
       [name |-> "NEWLINE", kind |-> "NEWLINE"],
       [name |-> "COMMENT", kind |-> "COMMENT"],
       [name |-> "STRING", kind |-> "STRING"] >>

SingleRules ==
    << Lit("LT", <<"<">>), Lit("GT", <<">">>), Lit("PLUS", <<"+">>),
       Lit("MINUS", <<"-">>), Lit("MUL", <<"*">>), Lit("DIV", <<"/">>),
       Lit("MOD", <<"%">>), Lit("NOT", <<"!">>), Lit("LPAREN", <<"(">>),
       Lit("RPAREN", <<")">>), Lit("LBRACK", <<"[">>), Lit("RBRACK", <<"]">>),
       Lit("DOT", <<".">>), Lit("SEMI", <<";">>), Lit("COMMA", <<",">>),
       Lit("COLON", <<":">>),
       [name |-> "ID", kind |-> "ID"] >>

\* the table with ':' and '=' tried before ':=' and '=='
token_specification_lexer_singles_first ==
    SkipRules \o
    << [name |-> "NUM", kind |-> "NUM", exp |-> { "e", "E" }],
       Lit("COLON", <<":">>), Lit("EQUAL", <<"=">>),
       Lit("ASSIGN", <<":", "=">>), Lit("EQEQ", <<"=", "=">>),
       Lit("NEQ", <<"!", "=">>), Lit("LE", <<"<", "=">>),
       Lit("GE", <<">", "=">>), Lit("ANDAND", <<"&", "&">>),
       Lit("OROR", <<"|", "|">>), Lit("DOTDOT", <<".", ".">>) >> \o
    SingleRules

token_specification_lexer ==
    SkipRules \o
    << [name |-> "NUM", kind |-> "NUM", exp |-> { "e", "E" }],
       Lit("ASSIGN", <<":", "=">>), Lit("EQEQ", <<"=", "=">>),
       Lit("EQUAL", <<"=">>), Lit("NEQ", <<"!", "=">>),
       Lit("LE", <<"<", "=">>), Lit("GE", <<">", "=">>),
       Lit("ANDAND", <<"&", "&">>), Lit("OROR", <<"|", "|">>),
       Lit("DOTDOT", <<".", ".">>) >> \o
    SingleRules

token_specification_analizador ==
    SkipRules \o
    << [name |-> "NUM", kind |-> "NUM", exp |-> { "e" }],
       Lit("ASSIGN", <<":", "=">>), Lit("EQEQ", <<"=", "=">>),
       Lit("NEQ", <<"!", "=">>), Lit("LE", <<"<", "=">>),
       Lit("GE", <<">", "=">>), Lit("ANDAND", <<"&", "&">>),
       Lit("OROR", <<"|", "|">>), Lit("DOTDOT", <<".", ".">>) >> \o
    SingleRules

token_specification(v) ==
    IF v = "lexer" THEN token_specification_lexer
    ELSE token_specification_analizador

\* tok_re.match(source_text, pos) for one rule: the length of m.group(0)
MatchLen(rule, s, p) ==
    CASE rule.kind = "WHITESPACE" -> MatchWhitespace(s, p)
      [] rule.kind = "NEWLINE"    -> MatchNewline(s, p)
      [] rule.kind = "COMMENT"    -> MatchComment(s, p)
      [] rule.kind = "STRING"     -> MatchString(s, p)
      [] rule.kind = "NUM"        -> MatchNum(s, p, rule.exp)
      [] rule.kind = "LIT"        -> MatchLiteral(s, p, rule.lit)
      [] rule.kind = "ID"         -> MatchId(s, p)

NoMatch == [name |-> "NONE", lexeme |-> <<>>]

\* the for loop over token_regex_list from rule k on: the first rule that
\* matches wins and ends the loop
RECURSIVE TryRules(_, _, _, _)
TryRules(spec, k, s, p) ==
    IF k > Len(spec) THEN NoMatch
    ELSE LET n == MatchLen(spec[k], s, p)
         IN  IF n > 0
             THEN [name |-> spec[k].name, lexeme |-> SubSeq(s, p + 1, p + n)]
             ELSE TryRules(spec, k + 1, s, p)

FirstMatch(v, s, p) == TryRules(token_specification(v), 1, s, p)

\* ------------------------------------------------------------------------
\* Cursor arithmetic
\* ------------------------------------------------------------------------
HasBreak(lexeme) == \E i \in 1..Len(lexeme) : lexeme[i] \in { "\r", "\n" }

FirstBreak(lexeme) ==
    CHOOSE i \in 1..Len(lexeme) :
        /\ lexeme[i] \in { "\r", "\n" }
        /\ \A k \in 1..(i - 1) : lexeme[k] \notin { "\r", "\n" }

\* re.split(r"\r\n|\r|\n", lexeme): the parts between the line breaks
RECURSIVE re_split(_)
re_split(lexeme) ==
    IF ~HasBreak(lexeme) THEN << lexeme >>
    ELSE LET i == FirstBreak(lexeme)
             n == MatchNewline(lexeme, i - 1)
         IN  << SubSeq(lexeme, 1, i - 1) >> \o
             re_split(SubSeq(lexeme, i + n, Len(lexeme)))

\* re.findall(r"\r\n|\r|\n", lexeme): the line breaks themselves
RECURSIVE re_findall(_)
re_findall(lexeme) ==
    IF ~HasBreak(lexeme) THEN << >>
    ELSE LET i == FirstBreak(lexeme)
             n == MatchNewline(lexeme, i - 1)
         IN  << SubSeq(lexeme, i, i + n - 1) >> \o
             re_findall(SubSeq(lexeme, i + n, Len(lexeme)))

\* lexer.py: _advance_position(line, col, lexeme)
advance_position(l, c, lexeme) ==
    IF lexeme = << >> THEN << l, c >>
    ELSE IF ~HasBreak(lexeme) THEN << l, c + Len(lexeme) >>
    ELSE LET parts == re_split(lexeme)
         IN  << l + (Len(parts) - 1), Len(parts[Len(parts)]) + 1 >>

\* Analizador_Léxico.py: the in-line update of line and col
advance_inline(l, c, lexeme) ==
    IF HasBreak(lexeme) THEN << l + Len(re_findall(lexeme)), 1 >>
    ELSE << l, c + Len(lexeme) >>

\* the cursor after consuming lexeme
NewCursor(v, l, c, lexeme) ==
    IF v = "lexer" THEN advance_position(l, c, lexeme)
    ELSE advance_inline(l, c, lexeme)

\* the position a token is stamped with: lexer.py saves start_line and
\* start_col before advancing; Analizador_Léxico.py uses the advanced line
\* and col - len(lexeme)
Stamp(v, l, c, lexeme) ==
    IF v = "lexer" THEN << l, c >>
    ELSE LET n == advance_inline(l, c, lexeme)
         IN  << n[1], n[2] - Len(lexeme) >>

\* pos += len(lexeme), with a variant that steps one character short and
\* one that does not step
AdvancePosShort(p, lexeme) == p + Len(lexeme) - 1

AdvancePosStuck(p, lexeme) == p

AdvancePos(p, lexeme) == p + Len(lexeme)

\* ------------------------------------------------------------------------
\* Token records
\* ------------------------------------------------------------------------
DESCRIPTION_MAP ==
    [ ASSIGN |-> "ASIGNACION", EQEQ |-> "IGUAL_IGUAL", EQUAL |-> "IGUAL",
      NEQ |-> "DIFERENTE", LE |-> "MENOR_IGUAL", GE |-> "MAYOR_IGUAL",
      LT |-> "MENOR", GT |-> "MAYOR", PLUS |-> "SUMA", MINUS |-> "RESTA",
      MUL |-> "MULTIPLICACION", DIV |-> "DIVISION", MOD |-> "MODULO",
      ANDAND |-> "AND", OROR |-> "OR", NOT |-> "NEGACION",
      LPAREN |-> "PARENTESIS_ABRE", RPAREN |-> "PARENTESIS_CIERRA",
      LBRACK |-> "CORCHETE_ABRE", RBRACK |-> "CORCHETE_CIERRA",
      DOTDOT |-> "RANGO", DOT |-> "PUNTO", SEMI |-> "PUNTO_Y_COMA",
      COMMA |-> "COMA", COLON |-> "DOS_PUNTOS", ID |-> "IDENTIFICADOR",
      NUM |-> "NUMERO", STRING |-> "CADENA", EOF |-> "EOF" ]

\* DESCRIPTION_MAP.get(name, name)
Description(name) ==
    IF name \in DOMAIN DESCRIPTION_MAP THEN DESCRIPTION_MAP[name] ELSE name

\* operator_map.get(tok_name, tok_name)
operator_map(v, name) ==
    IF v = "lexer" THEN name
    ELSE CASE name = "EQEQ"   -> "EQ"
           [] name = "ANDAND" -> "AND"
           [] name = "OROR"   -> "OR"
           [] OTHER           -> name

\* Token(token, cadena, lexeme, line, col) of lexer.py and
\* Token(type, lexeme, line, col) of Analizador_Léxico.py
Token(v, type, cadena, lexeme, l, c) ==
    IF v = "lexer"
    THEN [token |-> type, cadena |-> cadena, lexeme |-> lexeme,
          line |-> l, col |-> c]
    ELSE [type |-> type, lexeme |-> lexeme, line |-> l, col |-> c]

\* the category of a token record of either variant
TokType(t) == IF "token" \in DOMAIN t THEN t.token ELSE t.type

\* the end-of-input token, with a variant stamped at column 1
EofTokenColumnOne(v, l, c) == Token(v, "EOF", Description("EOF"), << >>, l, 1)

EofToken(v, l, c) == Token(v, "EOF", Description("EOF"), << >>, l, c)

NoError == [ch |-> "", line |-> 0, col |-> 0]

\* ------------------------------------------------------------------------
\* lex(source_text)
\* ------------------------------------------------------------------------
Start(texts) ==
    /\ variant \in Variants
    /\ source_text \in texts
    /\ pos = 0
    /\ line = 1
    /\ col = 1
    /\ tokens = << >>
    /\ match = NoMatch
    /\ pc = "scan"
    /\ error = NoError
    /\ consumed = << >>
    /\ starts = << >>

Init == Start(Sources)

FairInit == Start(FairSources)

\* top of the while loop: pos < length, then the for loop over the rules
Scan ==
    /\ pc = "scan"
    /\ pos < Len(source_text)
    /\ match' = FirstMatch(variant, source_text, pos)
    /\ pc' = "matched"
    /\ UNCHANGED << variant, source_text, pos, line, col, tokens, error,
                    consumed, starts >>

\* pos, line and col after the match; consumed records the lexeme
Consume(lexeme) ==
    LET n == NewCursor(variant, line, col, lexeme)
    IN  /\ pos' = AdvancePos(pos, lexeme)
        /\ line' = n[1]
        /\ col' = n[2]
        /\ consumed' = Append(consumed, lexeme)
        /\ pc' = "scan"

\* tokens.append(...); starts records the offset the lexeme was matched at
Emit(type, cadena, lexeme) ==
    LET at == Stamp(variant, line, col, lexeme)
    IN  /\ tokens' = Append(tokens,
                            Token(variant, type, cadena, lexeme, at[1], at[2]))
        /\ starts' = Append(starts, pos)

\* WHITESPACE, NEWLINE and COMMENT are consumed and dropped
Skip ==
    /\ pc = "matched"
    /\ match.name \in { "WHITESPACE", "NEWLINE", "COMMENT" }
    /\ Consume(match.lexeme)
    /\ UNCHANGED << variant, source_text, tokens, match, error, starts >>

\* an ID whose lower-cased lexeme is a reserved word
EmitKeyword ==
    /\ pc = "matched"
    /\ match.name = "ID"
    /\ lower(match.lexeme) \in KeywordWords
    /\ Consume(match.lexeme)
    /\ Emit(KeywordType(lower(match.lexeme)),
            IF variant = "lexer" THEN "PALABRA_RESERVADA" ELSE "",
            match.lexeme)
    /\ UNCHANGED << variant, source_text, match, error >>

\* any other ID
EmitIdentifier ==
    /\ pc = "matched"
    /\ match.name = "ID"
    /\ lower(match.lexeme) \notin KeywordWords
    /\ Consume(match.lexeme)
    /\ Emit("ID", Description("ID"), match.lexeme)
    /\ UNCHANGED << variant, source_text, match, error >>

\* NUM and STRING keep the rule's name as their type
EmitLiteral ==
    /\ pc = "matched"
    /\ match.name \in { "NUM", "STRING" }
    /\ Consume(match.lexeme)
    /\ Emit(match.name, Description(match.name), match.lexeme)
    /\ UNCHANGED << variant, source_text, match, error >>

\* operators and punctuation go through operator_map
EmitOperator ==
    /\ pc = "matched"
    /\ match.name \notin { "NONE", "WHITESPACE", "NEWLINE", "COMMENT",
                           "ID", "NUM", "STRING" }
    /\ Consume(match.lexeme)
    /\ Emit(operator_map(variant, match.name), Description(match.name),
            match.lexeme)
    /\ UNCHANGED << variant, source_text, match, error >>

\* no rule matched: raise LexerError(repr(ch), line, col)
RaiseLexerError ==
    /\ pc = "matched"
    /\ match = NoMatch
    /\ pc' = "error"
    /\ error' = [ch |-> At(source_text, pos), line |-> line, col |-> col]
    /\ UNCHANGED << variant, source_text, pos, line, col, tokens, match,
                    consumed, starts >>

\* the loop is over: append the EOF token and return
AppendEOF ==
    /\ pc = "scan"
    /\ pos >= Len(source_text)
    /\ tokens' = Append(tokens, EofToken(variant, line, col))
    /\ starts' = Append(starts, pos)
    /\ pc' = "done"
    /\ UNCHANGED << variant, source_text, pos, line, col, match, error,
                    consumed >>

Next ==
    \/ Scan
    \/ Skip
    \/ EmitKeyword
    \/ EmitIdentifier
    \/ EmitLiteral
    \/ EmitOperator
    \/ RaiseLexerError
    \/ AppendEOF

Spec == Init /\ [][Next]_vars

\* lex is one synchronous call: a step that can be taken is taken
FairSpec == FairInit /\ [][Next]_vars /\ WF_vars(Next)

TypeOK ==
    /\ variant \in Variants
    /\ pos \in 0..Len(source_text)
    /\ pc \in { "scan", "matched", "done", "error" }
    /\ Len(starts) = Len(tokens)

\* ------------------------------------------------------------------------
\* lex as a function of the text: the categories and lexemes emitted from
\* offset p on, and whether the call returned (ok) or raised
\* ------------------------------------------------------------------------
TypeOf(v, name, lexeme) ==
    CASE name = "ID" ->
             IF lower(lexeme) \in KeywordWords
             THEN KeywordType(lower(lexeme)) ELSE "ID"
      [] name \in { "NUM", "STRING" } -> name
      [] OTHER -> operator_map(v, name)

RECURSIVE LexFrom(_, _, _)
LexFrom(v, s, p) ==
    IF p >= Len(s) THEN [toks |-> << >>, ok |-> TRUE]
    ELSE LET m == FirstMatch(v, s, p)
         IN  IF m = NoMatch THEN [toks |-> << >>, ok |-> FALSE]
             ELSE LET rest == LexFrom(v, s, AdvancePos(p, m.lexeme))
                  IN  IF m.name \in { "WHITESPACE", "NEWLINE", "COMMENT" }
                      THEN rest
                      ELSE [toks |-> << << TypeOf(v, m.name, m.lexeme),
                                           m.lexeme >> >> \o rest.toks,
                            ok   |-> rest.ok]

\* ------------------------------------------------------------------------
\* Reference notions the properties are stated with
\* ------------------------------------------------------------------------
LineBreakChars == { "\r", "\n" }

\* 1 + the number of line breaks (\r\n, \r, \n, each once) in s[0:off]
TrueLine(s, off) ==
    1 + Cardinality({ k \in 1..off :
                        \/ s[k] = "\n"
                        \/ s[k] = "\r" /\ (k = off \/ s[k + 1] # "\n") })

\* 1 + the number of characters between the last line break of s[0:off]
\* (or the start of the text) and offset off
TrueCol(s, off) ==
    LET ends == { 0 } \cup { k \in 1..off : s[k] \in LineBreakChars }
        last == CHOOSE k \in ends : \A j \in ends : j <= k
    IN  1 + (off - last)

AllIn(w, from, to, S) == \A k \in from..to : w[k] \in S

\* w is a number literal: digits, optionally '.' digits, optionally an
\* exponent made of 'e' or 'E', an optional sign and digits
IsNumLiteral(w) ==
    \E a \in 1..Len(w), b \in 1..Len(w) :
        /\ a <= b
        /\ AllIn(w, 1, a, Digit)
        /\ \/ b = a
           \/ b >= a + 2 /\ w[a + 1] = "." /\ AllIn(w, a + 2, b, Digit)
        /\ \/ b = Len(w)
           \/ /\ w[b + 1] \in { "e", "E" }
              /\ \E k \in (b + 2)..Len(w) :
                    /\ k = b + 2 \/ (k = b + 3 /\ w[b + 2] \in { "+", "-" })
                    /\ AllIn(w, k, Len(w), Digit)

\* the length of the whole number literal that starts at offset p
NumLiteralLen(s, p) ==
    LET lens == { n \in 1..(Len(s) - p) : IsNumLiteral(SubSeq(s, p + 1, p + n)) }
    IN  IF lens = {} THEN 0 ELSE CHOOSE n \in lens : \A j \in lens : j <= n

\* the length of the block comment  // letters-or-digits //  at offset p,
\* 0 when there is none
CommentLenAt(s, p) ==
    LET lens == { n \in 5..(Len(s) - p) :
                    /\ s[p + 1] = "/" /\ s[p + 2] = "/"
                    /\ AllIn(s, p + 3, p + n - 2, AlNum)
                    /\ s[p + n - 1] = "/" /\ s[p + n] = "/" }
    IN  IF lens = {} THEN 0 ELSE CHOOSE n \in lens : TRUE

\* the opening quote at offset p has no closing quote before the next
\* line break
UnterminatedAt(s, p) ==
    /\ At(s, p) = Quote
    /\ At(s, RunEndNot(s, p + 1, { Quote, "\r", "\n" })) # Quote

\* the eight two-character operators and their category in each variant
MultiCharOps ==
    { [lit |-> <<":", "=">>, lexer |-> "ASSIGN", analizador |-> "ASSIGN"],
      [lit |-> <<"=", "=">>, lexer |-> "EQEQ",   analizador |-> "EQ"],
      [lit |-> <<"!", "=">>, lexer |-> "NEQ",    analizador |-> "NEQ"],
      [lit |-> <<"<", "=">>, lexer |-> "LE",     analizador |-> "LE"],
      [lit |-> <<">", "=">>, lexer |-> "GE",     analizador |-> "GE"],
      [lit |-> <<"&", "&">>, lexer |-> "ANDAND", analizador |-> "AND"],
      [lit |-> <<"|", "|">>, lexer |-> "OROR",   analizador |-> "OR"],
      [lit |-> <<".", ".">>, lexer |-> "DOTDOT", analizador |-> "DOTDOT"] }

\* case folding by position in the alphabet
FoldCase(w) ==
    [i \in 1..Len(w) |->
        IF \E k \in 1..26 : UpperSeq[k] = w[i]
        THEN LowerSeq[CHOOSE k \in 1..26 : UpperSeq[k] = w[i]] ELSE w[i]]

IdShaped(w) ==
    /\ Len(w) >= 1
    /\ w[1] \in Letter
    /\ AllIn(w, 2, Len(w), IdTail)

RECURSIVE Concat(_)
Concat(seqs) ==
    IF seqs = << >> THEN << >> ELSE Head(seqs) \o Concat(Tail(seqs))

LastToken(toks) == toks[Len(toks)]

Finished == pc \in { "done", "error" }

\* the non-EOF tokens of the list
Emitted == { i \in 1..Len(tokens) : TokType(tokens[i]) # "EOF" }

\* ------------------------------------------------------------------------
\* Properties
\* ------------------------------------------------------------------------

\* C1: every emitted non-EOF token, in both variants, carries the true
\* 1-based line and column of the first character of its lexeme, counting
\* \r\n, \r and \n once each; in particular line >= 1 and column >= 1.
C1_StampedAtStart ==
    \A i \in Emitted :
        /\ tokens[i].line = TrueLine(source_text, starts[i])
        /\ tokens[i].col = TrueCol(source_text, starts[i])
        /\ tokens[i].line >= 1
        /\ tokens[i].col >= 1

\* C2: an opening quote with no closing quote before the next line break
\* (\r\n, \r or \n) is never matched by the STRING rule and raises a
\* LexerError at the quote; no STRING token spans a line break.
C2_UnterminatedString ==
    /\ (pc = "matched" /\ UnterminatedAt(source_text, pos))
          => match = NoMatch
    /\ (pc = "error" /\ UnterminatedAt(source_text, pos))
          => /\ error.line = TrueLine(source_text, pos)
             /\ error.col = TrueCol(source_text, pos)
    /\ \A i \in Emitted :
          TokType(tokens[i]) = "STRING" => ~HasBreak(tokens[i].lexeme)

\* C3: whenever the cursor is at a digit, in both variants, the step emits
\* exactly one NUM token whose lexeme is the whole number literal (with an
\* exponent marker 'e' or 'E').
C3_WholeNumber ==
    [][ (pc = "matched" /\ At(source_text, pos) \in Digit)
          => /\ Len(tokens') = Len(tokens) + 1
             /\ SubSeq(tokens', 1, Len(tokens)) = tokens
             /\ TokType(LastToken(tokens')) = "NUM"
             /\ LastToken(tokens').lexeme =
                   SubSeq(source_text, pos + 1,
                          pos + NumLiteralLen(source_text, pos)) ]_vars

\* C4: when no rule matches, the LexerError names the character at the
\* current offset and carries that character's true 1-based line and column.
C4_ErrorPosition ==
    pc = "error"
       => /\ error.ch = At(source_text, pos)
          /\ error.line = TrueLine(source_text, pos)
          /\ error.col = TrueCol(source_text, pos)

\* C5: whenever the cursor is at the start of one of := == != <= >= && ||
\* .. the step emits exactly one token of that operator's category with the
\* two-character lexeme, never a token for its first character alone.
C5_MultiCharFirst ==
    [][ \A op \in MultiCharOps :
          (pc = "matched" /\ MatchLiteral(source_text, pos, op.lit) > 0)
             => /\ Len(tokens') = Len(tokens) + 1
                /\ SubSeq(tokens', 1, Len(tokens)) = tokens
                /\ LastToken(tokens').lexeme = op.lit
                /\ TokType(LastToken(tokens')) = op[variant]
                /\ pos' = pos + 2 ]_vars

C5_Witness ==
    /\ pc = "done"
    /\ variant = "lexer"
    /\ \E i \in Emitted :
          TokType(tokens[i]) = "EQEQ" /\ tokens[i].lexeme = <<"=", "=">>
    /\ \E i \in Emitted :
          TokType(tokens[i]) = "ASSIGN" /\ tokens[i].lexeme = <<":", "=">>

\* C6: at every iteration the concatenation of all consumed lexemes equals
\* source_text[0:pos]; on return it equals the whole source text.
C6_Reconstruction ==
    /\ Concat(consumed) = SubSeq(source_text, 1, pos)
    /\ pc = "done" => Concat(consumed) = source_text

C6_Witness ==
    /\ pc = "done"
    /\ Len(tokens) >= 3
    /\ Len(consumed) > Len(tokens)

\* C7: every returned list ends with exactly one EOF token with empty
\* lexeme, stamped with the final cursor; no other token has category EOF
\* or an empty lexeme.
C7_SingleEOF ==
    /\ pc # "done" =>
          \A i \in 1..Len(tokens) :
              TokType(tokens[i]) # "EOF" /\ tokens[i].lexeme # << >>
    /\ pc = "done" =>
          /\ Len(tokens) >= 1
          /\ TokType(LastToken(tokens)) = "EOF"
          /\ LastToken(tokens).lexeme = << >>
          /\ LastToken(tokens).line = line
          /\ LastToken(tokens).col = col
          /\ \A i \in 1..(Len(tokens) - 1) :
                TokType(tokens[i]) # "EOF" /\ tokens[i].lexeme # << >>

C7_Witness ==
    /\ pc = "done"
    /\ Len(tokens) >= 2
    /\ line > 1
    /\ col > 1

\* C8: an identifier-shaped lexeme whose case-folded form is one of the 19
\* reserved words gets that keyword's category and keeps its original case;
\* any other identifier-shaped lexeme gets category ID.
C8_Keywords ==
    /\ Cardinality(KeywordWords) = 19
    /\ \A i \in Emitted :
          IdShaped(tokens[i].lexeme) =>
             /\ tokens[i].lexeme =
                   SubSeq(source_text, starts[i] + 1,
                          starts[i] + Len(tokens[i].lexeme))
             /\ TokType(tokens[i]) =
                   IF FoldCase(tokens[i].lexeme) \in KeywordWords
                   THEN KeywordType(FoldCase(tokens[i].lexeme))
                   ELSE "ID"

C8_Witness ==
    /\ pc = "done"
    /\ \E i \in Emitted :
          TokType(tokens[i]) = "IF" /\ tokens[i].lexeme = <<"I", "f">>
    /\ \E i \in Emitted :
          TokType(tokens[i]) = "ID" /\ tokens[i].lexeme = <<"e">>

\* the text with the n characters at offset p replaced by one space
SpaceFor(s, p, n) ==
    SubSeq(s, 1, p) \o << " " >> \o SubSeq(s, p + n + 1, Len(s))

\* C9: whenever the cursor is at the start of a block comment, the step
\* consumes the whole comment and emits no token, and the call emits the
\* same categories and lexemes as on the text with the comment replaced by
\* a single space.
C9_CommentSkipped ==
    [][ (pc = "matched" /\ CommentLenAt(source_text, pos) > 0)
          => /\ tokens' = tokens
             /\ pos' = pos + CommentLenAt(source_text, pos)
             /\ LexFrom(variant, source_text, 0) =
                   LexFrom(variant,
                           SpaceFor(source_text, pos,
                                    CommentLenAt(source_text, pos)), 0) ]_vars

C9_Witness ==
    /\ pc = "done"
    /\ Len(tokens) >= 3
    /\ \E i \in 1..Len(consumed) :
          /\ i > 1
          /\ i < Len(consumed)
          /\ CommentLenAt(consumed[i], 0) = Len(consumed[i])
          /\ Len(consumed[i]) > 0

\* C10: every call terminates, returning or raising; every iteration that
\* does not raise moves pos strictly forward, and pos never moves backward
\* nor exceeds the length of the text.
C10_Terminates ==
    /\ <>Finished
    /\ [][ (pc = "matched" /\ pc' # "error") => pos' > pos ]_vars
    /\ [][ pos' >= pos /\ pos' <= Len(source_text) ]_vars

C10_Witness ==
    /\ pc = "done"
    /\ Len(consumed) >= 3
    /\ pos = Len(source_text)

====
